---- MODULE Spec2Model ----
(***************************************************************************)
(* Model of install.py: the script that appends a PATH export line for the *)
(* local "tools" directory to the rc file of the user's shell.             *)
(*                                                                         *)
(* File contents and the tools path are sequences of one-character         *)
(* strings, filesystem paths are sequences of path components.  One run of *)
(* main() is a sequence of steps, one per I/O operation of the script; a   *)
(* step that performs I/O may fail the way the operating system lets the   *)
(* call fail.  A process that is killed between two steps leaves the       *)
(* filesystem as it is in the intermediate state, so invariants over all   *)
(* reachable states also cover interrupted runs.                           *)
(***************************************************************************)
EXTENDS Integers, Sequences, FiniteSets, TLC

\* ---------------------------------------------------------------- bounds
MaxLen == 2          \* longest arbitrary initial rc content
MaxRuns == 2         \* number of consecutive runs of the script
MaxCut == 1          \* longest short prefix a failed write leaves behind

\* ------------------------------------------------------------- constants
Alphabet == {"a", "\n", "/"}

\* Path.home()
Home == <<"home", "u">>

\* Path(__file__).parent.absolute(), as text
ScriptDirStr == <<"/", "d">>

\* the answers a user may type at a prompt
Answers ==
  { <<"y">>, <<"Y">>, <<"y", "e", "s">>, <<"Y", "e", "S">>,
    <<"n">>, <<>>, <<"y", "e">>, <<" ", "y">> }

\* values of the SHELL environment variable, split at "/"
ShellEnvs ==
  { [set |-> FALSE, val |-> <<>>],
    [set |-> TRUE, val |-> <<"", "bin", "bash">>],
    [set |-> TRUE, val |-> <<"", "usr", "bin", "zsh">>],
    [set |-> TRUE, val |-> <<"", "usr", "bin", "fish">>],
    [set |-> TRUE, val |-> <<"", "bin", "tcsh">>],
    [set |-> TRUE, val |-> <<"", "bin", "csh">>],
    [set |-> TRUE, val |-> <<"", "bin", "sh">>],
    [set |-> TRUE, val |-> <<"zsh", "">>],
    [set |-> TRUE, val |-> <<"">>] }

\* ------------------------------------------------------ string functions
Last(s) == s[Len(s)]

\* needle in hay
Contains(hay, needle) ==
  \E i \in 0..(Len(hay) - Len(needle)) :
    SubSeq(hay, i + 1, i + Len(needle)) = needle

\* hay.endswith(suffix) for a one-character suffix
EndsWith(s, c) == s # <<>> /\ Last(s) = c

IsPrefix(p, s) == Len(p) <= Len(s) /\ SubSeq(s, 1, Len(p)) = p

LowerChar(c) ==
  CASE c = "Y" -> "y"
    [] c = "E" -> "e"
    [] c = "S" -> "s"
    [] c = "N" -> "n"
    [] c = "O" -> "o"
    [] OTHER -> c

\* str.lower()
Lower(s) == [i \in DOMAIN s |-> LowerChar(s[i])]

\* response.lower() in ('y', 'yes')
Accepts(response) == Lower(response) \in { <<"y">>, <<"y", "e", "s">> }

RECURSIVE SplitAcc(_, _, _)
SplitAcc(s, cur, acc) ==
  IF s = <<>>
    THEN (IF cur = <<>> THEN acc ELSE Append(acc, cur))
    ELSE IF Head(s) = "\n"
      THEN SplitAcc(Tail(s), <<>>, Append(acc, cur))
      ELSE SplitAcc(Tail(s), Append(cur, Head(s)), acc)

\* str.splitlines()
SplitLines(s) == SplitAcc(s, <<>>, <<>>)

\* ------------------------------------------------------- path functions
Parent(p) == SubSeq(p, 1, Len(p) - 1)

Prefixes(p) == { SubSeq(p, 1, k) : k \in 1..Len(p) }

\* Path(shell).name: the last non-empty component
PathName(segs) ==
  LET idx == { i \in DOMAIN segs : segs[i] # "" }
  IN IF idx = {} THEN ""
     ELSE segs[CHOOSE i \in idx : \A j \in idx : j <= i]

\* os.environ.get('SHELL', '/bin/bash')
EnvGet(env) == IF env.set THEN env.val ELSE <<"", "bin", "bash">>

RcFiles_cshTypo(name) ==
  CASE name = "bash" -> Home \o <<".bashrc">>
    [] name = "zsh" -> Home \o <<".zshrc">>
    [] name = "fish" -> Home \o <<".config", "fish", "config.fish">>
    [] name = "tcsh" -> Home \o <<".tcshrc">>
    [] name = "csh" -> Home \o <<".tcshrc">>
    [] OTHER -> Home \o <<".bashrc">>

RcFiles(name) ==
  CASE name = "bash" -> Home \o <<".bashrc">>
    [] name = "zsh" -> Home \o <<".zshrc">>
    [] name = "fish" -> Home \o <<".config", "fish", "config.fish">>
    [] name = "tcsh" -> Home \o <<".tcshrc">>
    [] name = "csh" -> Home \o <<".cshrc">>
    [] OTHER -> Home \o <<".bashrc">>

get_shell_and_rc_file(env) ==
  LET shell_name == PathName(EnvGet(env))
  IN [shell_name |-> shell_name, rc_file |-> RcFiles(shell_name)]

\* str(get_tools_path())
ToolsPathStr == ScriptDirStr \o <<"/", "t", "o", "o", "l", "s">>

create_path_export_line(shell_name, tools_path) ==
  IF shell_name = "fish"
    THEN <<"s", "e", "t", " ", "-", "g", "x", " ", "P", "A", "T", "H", " ", "\"">>
         \o tools_path \o <<"\"", " ", "$", "P", "A", "T", "H", "\n">>
    ELSE <<"e", "x", "p", "o", "r", "t", " ", "P", "A", "T", "H", "=", "\"">>
         \o tools_path \o <<":", "$", "P", "A", "T", "H", "\"", "\n">>

path_already_added_eq(exists, content, tools_path) ==
  exists /\ content = tools_path

path_already_added(exists, content, tools_path) ==
  exists /\ Contains(content, tools_path)

NewContent_blank(original_content, export_line) ==
  IF original_content # <<>>
    THEN original_content \o <<"\n">> \o export_line
    ELSE original_content \o export_line

\* new_content of main
NewContent(original_content, export_line) ==
  IF original_content # <<>> /\ ~EndsWith(original_content, "\n")
    THEN original_content \o <<"\n">> \o export_line
    ELSE original_content \o export_line

\* the "+" lines of the fallback renderer of show_diff
FallbackAdded(original_content, new_content) ==
  LET orig_lines == SplitLines(original_content)
      new_lines == SplitLines(new_content)
  IN IF Len(new_lines) > Len(orig_lines)
       THEN SubSeq(new_lines, Len(orig_lines) + 1, Len(new_lines))
       ELSE <<>>

\* ----------------------------------------------------------------- state
VARIABLES
  shellEnv,          \* SHELL of the environment
  toolsExists,       \* the tools directory exists
  rcExists,          \* the rc file exists
  rcContent,         \* its text (empty when it does not exist)
  dirs,              \* the directories that exist on the way to the rc file
  tmpFiles,          \* temporary files of the current show_diff call
  pc,                \* position of the run
  run,               \* number of runs started
  args,              \* parsed command line
  shell_name,
  rc_file,
  response,          \* last line read by input()
  asked,             \* which prompt it answered
  original_content,
  new_content,
  preview,           \* what show_diff printed
  plusLines,         \* the "+" lines printed by the fallback
  sdRaise,           \* an exception is propagating out of the try block
  previewShown,      \* show_diff returned
  outcome,           \* how the run ended
  exitCode,          \* exit status of the process
  fs0,               \* filesystem when the run started
  applied            \* the last successful write

vars ==
  << shellEnv, toolsExists, rcExists, rcContent, dirs, tmpFiles, pc, run, args,
     shell_name, rc_file, response, asked, original_content, new_content,
     preview, plusLines, sdRaise, previewShown, outcome, exitCode, fs0,
     applied >>

envVars == << shellEnv, toolsExists >>
fsVars == << rcExists, rcContent, dirs >>
locVars == << shell_name, rc_file, original_content, new_content >>
sdVars == << tmpFiles, preview, plusLines, sdRaise, previewShown >>
inVars == << response, asked >>
histVars == << run, args, fs0, applied >>

Fs == [exists |-> rcExists, content |-> rcContent, dirs |-> dirs]

BaseContents == UNION { [1..n -> Alphabet] : n \in 0..MaxLen }

Short == UNION { [1..n -> Alphabet] : n \in 0..1 }

InitContents ==
  BaseContents \cup { p \o ToolsPathStr \o q : p \in Short, q \in {<<>>, <<"\n">>} }

Init ==
  /\ shellEnv \in ShellEnvs
  /\ toolsExists \in BOOLEAN
  /\ LET rc == get_shell_and_rc_file(shellEnv).rc_file
     IN /\ \E k \in Len(Home)..Len(Parent(rc)) :
             dirs = Prefixes(SubSeq(rc, 1, k))
        /\ rcExists \in (IF Parent(rc) \in dirs THEN BOOLEAN ELSE {FALSE})
        /\ rcContent \in (IF rcExists THEN InitContents ELSE {<<>>})
  /\ tmpFiles = {}
  /\ pc = "idle"
  /\ run = 0
  /\ args = [yes |-> FALSE, dry_run |-> FALSE]
  /\ shell_name = ""
  /\ rc_file = <<>>
  /\ response = <<>>
  /\ asked = "none"
  /\ original_content = <<>>
  /\ new_content = <<>>
  /\ preview = "none"
  /\ plusLines = <<>>
  /\ sdRaise = FALSE
  /\ previewShown = FALSE
  /\ outcome = "none"
  /\ exitCode = -1
  /\ fs0 = Fs
  /\ applied = [done |-> FALSE, run |-> 0, content |-> <<>>]

\* return from main(): sys.exit(code)
Return(code, how) ==
  /\ pc' = "done"
  /\ exitCode' = code
  /\ outcome' = how

\* an exception leaves main(): traceback, exit status 1
Crash == Return(1, "crashed")

\* lines 117-125: parse the arguments, resolve the shell and the tools path
StartRun ==
  /\ pc \in {"idle", "done"}
  /\ run < MaxRuns
  /\ run' = run + 1
  /\ \E y \in BOOLEAN, d \in BOOLEAN : args' = [yes |-> y, dry_run |-> d]
  /\ LET r == get_shell_and_rc_file(shellEnv)
     IN shell_name' = r.shell_name /\ rc_file' = r.rc_file
  /\ original_content' = <<>>
  /\ new_content' = <<>>
  /\ response' = <<>>
  /\ asked' = "none"
  /\ tmpFiles' = {}
  /\ preview' = "none"
  /\ plusLines' = <<>>
  /\ sdRaise' = FALSE
  /\ previewShown' = FALSE
  /\ outcome' = "running"
  /\ exitCode' = -1
  /\ fs0' = Fs
  /\ pc' = "check_tools"
  /\ UNCHANGED << envVars, fsVars, applied >>

\* lines 127-134
CheckTools ==
  /\ pc = "check_tools"
  /\ \/ /\ toolsExists \/ args.yes
        /\ pc' = "check_added"
        /\ UNCHANGED << inVars, outcome, exitCode >>
     \/ /\ ~toolsExists /\ ~args.yes
        /\ \E a \in Answers :
             /\ response' = a
             /\ asked' = "continue"
             /\ IF Accepts(a)
                  THEN pc' = "check_added" /\ UNCHANGED << outcome, exitCode >>
                  ELSE Return(1, "tools_declined")
  /\ UNCHANGED << envVars, fsVars, locVars, sdVars, histVars >>

\* lines 136-139
CheckAdded ==
  /\ pc = "check_added"
  /\ \/ /\ path_already_added(rcExists, rcContent, ToolsPathStr)
        /\ Return(0, "already_present")
     \/ /\ ~path_already_added(rcExists, rcContent, ToolsPathStr)
        /\ pc' = "read"
        /\ UNCHANGED << outcome, exitCode >>
     \/ /\ rcExists          \* rc_file.read_text() raises
        /\ Crash
  /\ UNCHANGED << envVars, fsVars, locVars, sdVars, inVars, histVars >>

ReadOriginal_touch ==
  /\ pc = "read"
  /\ original_content' = (IF rcExists THEN rcContent ELSE <<>>)
  /\ new_content' =
       NewContent(original_content',
                  create_path_export_line(shell_name, ToolsPathStr))
  /\ pc' = "sd_orig"
  /\ rcExists' = (rcExists \/ Parent(rc_file) \in dirs)
  /\ UNCHANGED << envVars, rcContent, dirs, shell_name, rc_file, sdVars,
                  inVars, histVars, outcome, exitCode >>

\* lines 141-154
ReadOriginal ==
  /\ pc = "read"
  /\ \/ /\ original_content' = (IF rcExists THEN rcContent ELSE <<>>)
        /\ new_content' =
             NewContent(original_content',
                        create_path_export_line(shell_name, ToolsPathStr))
        /\ pc' = "sd_orig"
        /\ UNCHANGED << outcome, exitCode >>
     \/ /\ rcExists          \* rc_file.read_text() raises
        /\ Crash
        /\ UNCHANGED << original_content, new_content >>
  /\ UNCHANGED << envVars, fsVars, shell_name, rc_file, sdVars, inVars,
                  histVars >>

\* show_diff, lines 60-62: the first temporary file (delete=False)
SdOrig ==
  /\ pc = "sd_orig"
  /\ \/ /\ tmpFiles' = tmpFiles \cup {"orig"}
        /\ pc' = "sd_new"
        /\ UNCHANGED << outcome, exitCode >>
     \/ /\ Crash             \* NamedTemporaryFile raises
        /\ UNCHANGED tmpFiles
     \/ /\ Crash             \* write or flush raises
        /\ tmpFiles' = tmpFiles \cup {"orig"}
  /\ UNCHANGED << envVars, fsVars, locVars, preview, plusLines, sdRaise,
                  previewShown, inVars, histVars >>

\* show_diff, lines 64-66: the second temporary file (delete=False)
SdNew ==
  /\ pc = "sd_new"
  /\ \/ /\ tmpFiles' = tmpFiles \cup {"new"}
        /\ pc' = "sd_run"
        /\ UNCHANGED << outcome, exitCode >>
     \/ /\ Crash             \* NamedTemporaryFile raises
        /\ UNCHANGED tmpFiles
     \/ /\ Crash             \* write or flush raises
        /\ tmpFiles' = tmpFiles \cup {"new"}
  /\ UNCHANGED << envVars, fsVars, locVars, preview, plusLines, sdRaise,
                  previewShown, inVars, histVars >>

\* show_diff, lines 68-95: the try block
SdRun ==
  /\ pc = "sd_run"
  /\ \/ /\ preview' = "diff"             \* diff ran and printed the changes
        /\ UNCHANGED << plusLines, sdRaise >>
     \/ /\ preview' = "fallback"         \* FileNotFoundError
        /\ plusLines' = FallbackAdded(original_content, new_content)
        /\ UNCHANGED sdRaise
     \/ /\ sdRaise' = TRUE               \* any other exception
        /\ UNCHANGED << preview, plusLines >>
  /\ pc' = "sd_finally"
  /\ UNCHANGED << envVars, fsVars, locVars, tmpFiles, previewShown, inVars,
                  histVars, outcome, exitCode >>

\* show_diff, lines 97-99: the finally block, then the return
SdFinally ==
  /\ pc = "sd_finally"
  /\ \/ /\ tmpFiles' = {}
        /\ IF sdRaise
             THEN Crash /\ UNCHANGED previewShown
             ELSE /\ pc' = "dry_check"
                  /\ previewShown' = TRUE
                  /\ UNCHANGED << outcome, exitCode >>
     \/ /\ tmpFiles' \in { {"new"}, {"orig", "new"} }   \* first unlink raises
        /\ Crash
        /\ UNCHANGED previewShown
     \/ /\ tmpFiles' \in { {}, {"new"} }                 \* second unlink raises
        /\ Crash
        /\ UNCHANGED previewShown
  /\ UNCHANGED << envVars, fsVars, locVars, preview, plusLines, sdRaise,
                  inVars, histVars >>

DryCheck_yesWins ==
  /\ pc = "dry_check"
  /\ IF args.dry_run /\ ~args.yes
       THEN Return(0, "dry_run")
       ELSE /\ pc' = (IF args.yes THEN "mkdir" ELSE "confirm")
            /\ UNCHANGED << outcome, exitCode >>
  /\ UNCHANGED << envVars, fsVars, locVars, sdVars, inVars, histVars >>

\* lines 159-164
DryCheck ==
  /\ pc = "dry_check"
  /\ IF args.dry_run
       THEN Return(0, "dry_run")
       ELSE /\ pc' = (IF args.yes THEN "mkdir" ELSE "confirm")
            /\ UNCHANGED << outcome, exitCode >>
  /\ UNCHANGED << envVars, fsVars, locVars, sdVars, inVars, histVars >>

Confirm_noReturn ==
  /\ pc = "confirm"
  /\ \E a \in Answers :
       /\ response' = a
       /\ asked' = "apply"
       /\ pc' = "mkdir"
       /\ UNCHANGED << outcome, exitCode >>
  /\ UNCHANGED << envVars, fsVars, locVars, sdVars, histVars >>

\* lines 165-168
Confirm ==
  /\ pc = "confirm"
  /\ \E a \in Answers :
       /\ response' = a
       /\ asked' = "apply"
       /\ IF Accepts(a)
            THEN pc' = "mkdir" /\ UNCHANGED << outcome, exitCode >>
            ELSE Return(0, "declined")
  /\ UNCHANGED << envVars, fsVars, locVars, sdVars, histVars >>

\* line 171: rc_file.parent.mkdir(parents=True, exist_ok=True)
Mkdir ==
  /\ pc = "mkdir"
  /\ \/ /\ dirs' = dirs \cup Prefixes(Parent(rc_file))
        /\ pc' = "write"
        /\ UNCHANGED << outcome, exitCode >>
     \/ /\ Parent(rc_file) \notin dirs      \* a directory cannot be created
        /\ \E k \in Len(Home)..(Len(Parent(rc_file)) - 1) :
             dirs' = dirs \cup Prefixes(SubSeq(rc_file, 1, k))
        /\ Crash
  /\ UNCHANGED << envVars, rcExists, rcContent, locVars, sdVars, inVars,
                  histVars >>

\* lines 174-188: rc_file.write_text(new_content) opens the file for writing,
\* which creates or truncates it, and then writes the text.  A write that
\* fails after the open leaves a proper prefix of the text in the file; the
\* prefixes modelled are the short ones and the text less its last character.
WriteRc ==
  /\ pc = "write"
  /\ \/ /\ rcExists' = TRUE
        /\ rcContent' = new_content
        /\ applied' = [done |-> TRUE, run |-> run, content |-> new_content]
        /\ Return(0, "applied")
     \/ /\ UNCHANGED << rcExists, rcContent, applied >>   \* open raises
        /\ Return(1, "write_failed")
     \/ /\ rcExists' = TRUE                \* write or close raises
        /\ \E k \in (0..MaxCut) \cup {Len(new_content) - 1} :
             /\ k < Len(new_content)
             /\ rcContent' = SubSeq(new_content, 1, k)
        /\ UNCHANGED applied
        /\ Return(1, "write_failed")
  /\ UNCHANGED << envVars, dirs, locVars, sdVars, inVars, run, args, fs0 >>

Next ==
  \/ StartRun
  \/ CheckTools
  \/ CheckAdded
  \/ ReadOriginal
  \/ SdOrig
  \/ SdNew
  \/ SdRun
  \/ SdFinally
  \/ DryCheck
  \/ Confirm
  \/ Mkdir
  \/ WriteRc

Spec == Init /\ [][Next]_vars

TypeOK ==
  /\ pc \in {"idle", "check_tools", "check_added", "read", "sd_orig", "sd_new",
             "sd_run", "sd_finally", "dry_check", "confirm", "mkdir", "write",
             "done"}
  /\ exitCode \in {-1, 0, 1}
  /\ run \in 0..MaxRuns

\* ---------------------------------------------------------------- claims
SdPcs == {"sd_orig", "sd_new", "sd_run", "sd_finally"}

\* every spelling of "y" and "yes" in upper and lower case
YesSpellings ==
  { <<a>> : a \in {"y", "Y"} }
    \cup { <<a>> \o <<b>> \o <<c>> :
             a \in {"y", "Y"}, b \in {"e", "E"}, c \in {"s", "S"} }

\* C1: once a run has written the rc file, every later run leaves the file
\* with exactly that content: the tools path is found in it, the run stops at
\* the already-present check at the latest and never reaches the write.
C1_RerunIsNoOp ==
  applied.done =>
    /\ rcExists
    /\ rcContent = applied.content
    /\ Contains(rcContent, ToolsPathStr)
    /\ run > applied.run =>
         /\ pc \in {"check_tools", "check_added", "done"}
         /\ pc = "done" =>
              outcome \in {"already_present", "tools_declined", "crashed"}

C1_Witness ==
  /\ applied.done
  /\ run > applied.run
  /\ pc = "done"
  /\ outcome = "already_present"
  /\ fs0.exists
  /\ rcContent = applied.content

\* C2: in a run with --dry-run the rc file and its parent directories stay
\* as they were when the run started, whatever -y and the answers are, and
\* once the preview has been shown the run returns 0.
C2_DryRunFrame ==
  (run > 0 /\ args.dry_run) =>
    /\ Fs = fs0
    /\ previewShown =>
         /\ pc \in {"dry_check", "done"}
         /\ pc = "done" => (exitCode = 0 /\ outcome = "dry_run")

C2_Witness ==
  /\ pc = "done"
  /\ args.dry_run
  /\ args.yes
  /\ outcome = "dry_run"
  /\ previewShown
  /\ Parent(rc_file) \notin dirs

\* C3: without -y, an answer to the apply prompt that is no spelling of "y"
\* or "yes" ends the run at once with exit code 0, the rc file unwritten and
\* its parent directory not created.
C3_DeclineFrame ==
  (asked = "apply" /\ response \notin YesSpellings) =>
    /\ pc = "done"
    /\ outcome = "declined"
    /\ exitCode = 0
    /\ ~args.yes
    /\ Fs = fs0

C3_Witness ==
  /\ asked = "apply"
  /\ response = <<" ", "y">>
  /\ outcome = "declined"
  /\ Parent(rc_file) \notin dirs
  /\ ~rcExists

\* C4: the proposed content is the original content, then a newline if the
\* original is non-empty and lacks its final newline, then the export line;
\* the original is a prefix of it and exactly one line is added.
C4_PureAppend ==
  new_content # <<>> =>
    LET e == create_path_export_line(shell_name, ToolsPathStr)
        o == original_content
    IN /\ (o # <<>> /\ o[Len(o)] # "\n") => new_content = o \o <<"\n">> \o e
       /\ (o = <<>> \/ o[Len(o)] = "\n") => new_content = o \o e
       /\ IsPrefix(o, new_content)
       /\ Len(SplitLines(new_content)) = Len(SplitLines(o)) + 1
       /\ FallbackAdded(o, new_content) = << SubSeq(e, 1, Len(e) - 1) >>

C4_Witness ==
  /\ new_content # <<>>
  /\ original_content = <<"a", "\n">>
  /\ new_content = original_content
                     \o create_path_export_line("bash", ToolsPathStr)
  /\ shell_name = "bash"

\* C5: a run ends with exit code 0 exactly when the path was already present,
\* the user declined the apply prompt, the dry run completed or the change
\* was written, and with exit code 1 exactly when the tools directory is
\* missing and the user declined to continue (never with -y) or the rc-file
\* write failed; no run ends with another code.
C5_ExitCodes ==
  pc = "done" =>
    /\ exitCode \in {0, 1}
    /\ exitCode = 0 <=>
         outcome \in {"already_present", "declined", "dry_run", "applied"}
    /\ exitCode = 1 <=> outcome \in {"tools_declined", "write_failed"}
    /\ outcome = "tools_declined" => (~args.yes /\ ~toolsExists)

\* C6: every failure of a run is caught and turned into a message and an
\* exit code; no run ends with an unhandled exception.
C6_AllFailuresCaught == outcome # "crashed"

\* C7: after a failed rc-file write the rc file holds either its complete
\* original content (or is still absent) or the complete proposed content.
C7_NoPartialWrite ==
  outcome = "write_failed" =>
    \/ (rcExists = fs0.exists /\ rcContent = fs0.content)
    \/ (rcExists /\ rcContent = new_content)

\* C8: the resolver always yields an rc file: the basename of SHELL (bash when
\* SHELL is unset) selects ~/.bashrc, ~/.zshrc, ~/.config/fish/config.fish,
\* ~/.tcshrc or ~/.cshrc, and every other name selects ~/.bashrc.
C8_Resolver ==
  run > 0 =>
    /\ ~shellEnv.set => shell_name = "bash"
    /\ (shellEnv.set /\ shellEnv.val # <<>> /\ Last(shellEnv.val) # "") =>
         shell_name = Last(shellEnv.val)
    /\ shell_name = "bash" => rc_file = <<"home", "u", ".bashrc">>
    /\ shell_name = "zsh" => rc_file = <<"home", "u", ".zshrc">>
    /\ shell_name = "fish" =>
         rc_file = <<"home", "u", ".config", "fish", "config.fish">>
    /\ shell_name = "tcsh" => rc_file = <<"home", "u", ".tcshrc">>
    /\ shell_name = "csh" => rc_file = <<"home", "u", ".cshrc">>
    /\ shell_name \notin {"bash", "zsh", "fish", "tcsh", "csh"} =>
         rc_file = <<"home", "u", ".bashrc">>

C8_Witness ==
  /\ run > 0
  /\ shell_name = "csh"
  /\ rc_file = <<"home", "u", ".cshrc">>
  /\ pc = "check_tools"

\* C9: once show_diff has returned or raised, neither of its two temporary
\* files exists.
C9_TmpRemoved == pc \notin SdPcs => tmpFiles = {}

\* C10 as stated: the rc-file write is the first change of the rc file and
\* its parent directories in a run.
C10_WriteIsFirstMutation == [][Fs' # Fs => pc = "write"]_vars

\* C10 as amended: the rc file and its parent directories change only in the
\* applying steps (creating the parent directories, then the write), never in
\* a dry run and only after show_diff has returned.
C10_MutationOnlyWhenApplying ==
  [][Fs' # Fs =>
       /\ pc \in {"mkdir", "write"}
       /\ previewShown
       /\ ~args.dry_run
       /\ (pc = "write" => Parent(rc_file) \in dirs)]_vars

C10_Witness ==
  /\ pc = "write"
  /\ dirs # fs0.dirs
  /\ previewShown
  /\ rcExists = fs0.exists

====
